---- MODULE Spec2Model ----
(***************************************************************************)
(* Wumpus World agent: the knowledge base of agent_logic.py                *)
(* (AgentKnowledge) and the world / agent controller of wumpus.py and its  *)
(* near-duplicate app.py (WumpusWorld, WumpusAgent).                       *)
(*                                                                         *)
(* Probabilities are the floats 0.0, 1.0 and 1.0/k (k in 2..4); they are   *)
(* held as integer multiples of 1/12, which keeps their order and their    *)
(* equalities (ONE is 1.0, ONE \div k is 1.0/k).                           *)
(***************************************************************************)
EXTENDS Integers, Sequences, FiniteSets, TLC

\* ------------------------------------------------------------ bounds
\* Largest number of pits a world is built with.
MaxPits == 1
\* The move budget the agent is built with (max_moves).
MaxMoves == 4
\* Largest number of update_percepts calls made on a bare knowledge base.
MaxCalls == 2
\* The pits of a world the policy is run in on its own.
MaxAutoPits == 1
\* max_moves of a session the policy is run in on its own.
MaxAutoMoves == 6

\* ------------------------------------------------------- program constants
\* WumpusWorld.size and init_game's GRID_SIZE.
GRID_SIZE == 4
\* The float 1.0 (certainty), in twelfths.
ONE == 12
\* The corner block the constructor's asserts keep free of hazards.
FAIR_BLOCK == 2

VARIABLES
    variant,        \* "wumpus" (wumpus.py) or "app" (app.py): which module runs
    wumpus_pos,     \* WumpusWorld.wumpus_pos
    pits,           \* WumpusWorld.pits
    paradise_pos,   \* WumpusWorld.paradise_pos
    knowledge_map,  \* AgentKnowledge.knowledge_map, a function of the cell
    pos,            \* WumpusAgent.(r, c)
    moves_made,     \* WumpusAgent.moves_made
    alive,          \* WumpusAgent.alive
    max_moves,      \* WumpusAgent.max_moves, fixed at construction
    call,           \* the last call made: its name and arguments
    ret,            \* what the last call returned
    calls           \* number of update_percepts calls made on a bare knowledge base

vars == <<variant, wumpus_pos, pits, paradise_pos, knowledge_map, pos,
          moves_made, alive, max_moves, call, ret, calls>>

\* What a session never changes: the module, the world and the budget.
world_vars == <<variant, wumpus_pos, pits, paradise_pos, max_moves>>

agent_vars == <<pos, moves_made, alive>>

\* ------------------------------------------------------------ grid
START_POS == <<0, 0>>

\* AgentKnowledge.size: init_game hands the knowledge base GRID_SIZE.
size == GRID_SIZE

Cells == (0 .. size - 1) \X (0 .. size - 1)

\* Cells in row-major order, as the nested range() loops visit them.
CellAt(i) == <<i \div size, i % size>>

InBounds(p) ==
    /\ 0 <= p[1] /\ p[1] < size
    /\ 0 <= p[2] /\ p[2] < size

\* Mutant: the first delta reaches two cells away.
NeighborDeltas_TwoHop == << <<0, 2>>, <<0, -1>>, <<1, 0>>, <<-1, 0>> >>

\* The deltas of _get_neighbors, in the order the code lists them.
NeighborDeltas == << <<0, 1>>, <<0, -1>>, <<1, 0>>, <<-1, 0>> >>

Shift(p, d) == <<p[1] + d[1], p[2] + d[2]>>

\* The in-bounds 4-connected neighbours of p, in the order the code lists them.
get_neighbors(p) ==
    LET all == [i \in 1 .. 4 |-> Shift(p, NeighborDeltas[i])]
    IN  SelectSeq(all, InBounds)

NeighborSet(p) == LET ns == get_neighbors(p) IN {ns[i] : i \in 1 .. Len(ns)}

\* ------------------------------------------------------------ AgentKnowledge
DefaultCell ==
    [visited |-> FALSE, percepts |-> {}, is_safe |-> FALSE,
     prob_pit |-> 0, prob_wumpus |-> 0]

\* AgentKnowledge.__init__
NewKnowledge(start_pos) ==
    [p \in Cells |-> IF p = start_pos
                     THEN [DefaultCell EXCEPT !.is_safe = TRUE]
                     ELSE DefaultCell]

\* Mutant: the visit does not store the percepts.
VisitedCell_DropsPercepts(cell, percepts) ==
    [cell EXCEPT !.visited = TRUE, !.is_safe = TRUE,
                 !.prob_pit = 0, !.prob_wumpus = 0]

\* Mutant: the visit forgets to clear the cell's probabilities.
VisitedCell_KeepsProbabilities(cell, percepts) ==
    [cell EXCEPT !.visited = TRUE, !.percepts = percepts, !.is_safe = TRUE]

\* The visited cell itself, after update_percepts.
VisitedCell(cell, percepts) ==
    [cell EXCEPT !.visited = TRUE, !.percepts = percepts, !.is_safe = TRUE,
                 !.prob_pit = 0, !.prob_wumpus = 0]

\* A neighbour of a silent cell, after update_percepts.
SafeNeighbor(neighbor) ==
    IF ~neighbor.visited
    THEN [neighbor EXCEPT !.is_safe = TRUE, !.prob_pit = 0, !.prob_wumpus = 0]
    ELSE neighbor

\* Mutant: a Stench does not break the silence.
Silent_IgnoresStench(percepts) == ~("Breeze" \in percepts)

\* Mutant: only an empty percept set counts as silent.
Silent_OnlyEmpty(percepts) == percepts = {}

\* Whether the percepts let update_percepts prove the neighbours safe.
Silent(percepts) == ~("Breeze" \in percepts) /\ ~("Stench" \in percepts)

\* Mutant: a Breeze or a Stench withdraws the safety of the unvisited neighbours.
update_percepts_NoisyUnsafe(km, p, percepts) ==
    LET km1 == [km EXCEPT ![p] = VisitedCell(@, percepts)]
        neighbors == NeighborSet(p)
    IN  [q \in Cells |->
            IF q \in neighbors
            THEN IF Silent(percepts)
                 THEN SafeNeighbor(km1[q])
                 ELSE IF ~km1[q].visited
                      THEN [km1[q] EXCEPT !.is_safe = FALSE]
                      ELSE km1[q]
            ELSE km1[q]]

\* AgentKnowledge.update_percepts
update_percepts(km, p, percepts) ==
    LET km1 == [km EXCEPT ![p] = VisitedCell(@, percepts)]
        neighbors == NeighborSet(p)
    IN  IF Silent(percepts)
        THEN [q \in Cells |-> IF q \in neighbors
                              THEN SafeNeighbor(km1[q])
                              ELSE km1[q]]
        ELSE km1

\* Mutant: pass 1 is skipped, so the old values stay.
ResetCell_KeepsValues(cell) == cell

\* Pass 1 of update_probabilities, for one cell.
ResetCell(cell) ==
    IF ~cell.visited /\ ~cell.is_safe
    THEN [cell EXCEPT !.prob_pit = 0, !.prob_wumpus = 0]
    ELSE cell

\* The neighbours of p that are not proven safe, in neighbour order.
unknown_neighbors(km, p) ==
    LET NotSafe(q) == ~km[q].is_safe
    IN  SelectSeq(get_neighbors(p), NotSafe)

\* Mutant: the share is taken over one cell too many.
prob_increment_OffByOne(n) == ONE \div (n + 1)

\* 1.0 / len(unknown_neighbors)
prob_increment(n) == ONE \div n

\* evidence[(nr, nc)] = evidence.get((nr, nc), []) + [inc], for each unknown neighbour
AddEvidence(evidence, unknown, inc) ==
    [q \in Cells |->
        IF \E i \in 1 .. Len(unknown) : unknown[i] = q
        THEN Append(evidence[q], inc)
        ELSE evidence[q]]

\* Mutant: elimination writes is_safe = True instead of False.
PitCertain_MarksSafe(cell) == [cell EXCEPT !.prob_pit = ONE, !.is_safe = TRUE]

\* Elimination: the single unknown neighbour certainly holds the pit.
PitCertain(cell) == [cell EXCEPT !.prob_pit = ONE, !.is_safe = FALSE]

\* Mutant: the Stench branch, copied from the Breeze branch, still writes prob_pit.
WumpusCertain_WritesPit(cell) == [cell EXCEPT !.prob_pit = ONE, !.is_safe = FALSE]

\* Elimination: the single unknown neighbour certainly holds the wumpus.
WumpusCertain(cell) == [cell EXCEPT !.prob_wumpus = ONE, !.is_safe = FALSE]

\* The Breeze branch of the scan, for the visited cell p.
BreezeStep(st, p) ==
    IF "Breeze" \in st.km[p].percepts
    THEN LET u == unknown_neighbors(st.km, p)
         IN  IF Len(u) = 1
             THEN [st EXCEPT !.km[u[1]] = PitCertain(@)]
             ELSE IF Len(u) > 1
                  THEN [st EXCEPT !.pit_evidence =
                                     AddEvidence(@, u, prob_increment(Len(u)))]
                  ELSE st
    ELSE st

\* The Stench branch of the scan, for the visited cell p.
StenchStep(st, p) ==
    IF "Stench" \in st.km[p].percepts
    THEN LET u == unknown_neighbors(st.km, p)
         IN  IF Len(u) = 1
             THEN [st EXCEPT !.km[u[1]] = WumpusCertain(@)]
             ELSE IF Len(u) > 1
                  THEN [st EXCEPT !.wumpus_evidence =
                                     AddEvidence(@, u, prob_increment(Len(u)))]
                  ELSE st
    ELSE st

\* One iteration of the scan over the cells.
ScanCell(st, p) ==
    IF st.km[p].visited THEN StenchStep(BreezeStep(st, p), p) ELSE st

\* The scan over the cells i, i+1, ... in row-major order, starting from st.
\* (Each step's result is bound by a quantifier so that it is computed once.)
RECURSIVE Scan(_, _)
Scan(st, i) ==
    IF i = size * size THEN st
    ELSE CHOOSE out \in {Scan(next, i + 1) : next \in {ScanCell(st, CellAt(i))}} :
            TRUE

Max(a, b) == IF a >= b THEN a ELSE b

\* max(evidences) of a non-empty list
MaxOf(evidences) ==
    CHOOSE m \in {evidences[i] : i \in 1 .. Len(evidences)} :
        \A i \in 1 .. Len(evidences) : evidences[i] <= m

\* The sum of a list of contributions.
RECURSIVE SumOf(_)
SumOf(evidences) ==
    IF evidences = <<>> THEN 0 ELSE Head(evidences) + SumOf(Tail(evidences))

\* Mutant: the contributions are added up instead of taking their maximum.
ApplyEvidence_Sum(current_prob, evidences) ==
    IF evidences = <<>> THEN current_prob
    ELSE IF current_prob < ONE THEN current_prob + SumOf(evidences)
    ELSE current_prob

\* Step 3 for one probability: the maximum evidence, unless already certain.
ApplyEvidence(current_prob, evidences) ==
    IF evidences = <<>> THEN current_prob
    ELSE IF current_prob < ONE THEN Max(current_prob, MaxOf(evidences))
    ELSE current_prob

\* AgentKnowledge.update_probabilities
update_probabilities(km) ==
    LET km1 == [p \in Cells |-> ResetCell(km[p])]
        st0 == [km |-> km1,
                pit_evidence |-> [p \in Cells |-> <<>>],
                wumpus_evidence |-> [p \in Cells |-> <<>>]]
        st  == Scan(st0, 0)
    IN  [p \in Cells |->
            [st.km[p] EXCEPT
                !.prob_pit = ApplyEvidence(@, st.pit_evidence[p]),
                !.prob_wumpus = ApplyEvidence(@, st.wumpus_evidence[p])]]


\* Mutant: the bounds test of query forgets the lower bounds.
QueryInBounds_NoLowerBound(qr, qc) == qr < size /\ qc < size

\* The bounds test of query.
QueryInBounds(qr, qc) == 0 <= qr /\ qr < size /\ 0 <= qc /\ qc < size

\* A Python list index: a negative index counts from the end of the list.
PyIndex(i) == IF i < 0 THEN size + i ELSE i

\* Mutant: a visited cell is not told apart from a proven-safe one.
QueryStatus_NoVisitedOverride(cell) ==
    IF cell.prob_pit >= ONE \/ cell.prob_wumpus >= ONE THEN "DEFINITELY DANGEROUS"
    ELSE IF cell.is_safe THEN "SAFE"
    ELSE "UNKNOWN"

\* The status of query: the if/elif on certainty and safety, then the
\* overwrite for a visited cell.
QueryStatus(cell) ==
    LET status0 == IF cell.prob_pit >= ONE \/ cell.prob_wumpus >= ONE
                   THEN "DEFINITELY DANGEROUS"
                   ELSE IF cell.is_safe THEN "SAFE"
                   ELSE "UNKNOWN"
    IN  IF cell.visited THEN "SAFE (VISITED)" ELSE status0

\* AgentKnowledge.query
query(km, qr, qc) ==
    IF ~QueryInBounds(qr, qc)
    THEN [error |-> "Invalid Chamber Coordinates."]
    ELSE LET cell == km[<<PyIndex(qr), PyIndex(qc)>>]
             inferred_list ==
                 (IF cell.prob_pit >= ONE
                  THEN <<"Pit CERTAIN (Prob=1.0)">> ELSE <<>>)
                 \o (IF cell.prob_wumpus >= ONE
                     THEN <<"Wumpus CERTAIN (Prob=1.0)">> ELSE <<>>)
         IN  [coords |-> <<qr + 1, qc + 1>>,
              status |-> QueryStatus(cell),
              percepts_observed |->
                  IF cell.visited
                  THEN cell.percepts \cap {"Breeze", "Stench", "Glitter"}
                  ELSE {},
              inferred_percepts |->
                  IF ~cell.visited THEN inferred_list ELSE <<>>,
              prob_pit |-> cell.prob_pit,
              prob_wumpus |-> cell.prob_wumpus]

\* ------------------------------------------------------------ WumpusWorld
\* The cells of the corner block, where the asserts allow no hazard.
InFairBlock(p) == p[1] < FAIR_BLOCK /\ p[2] < FAIR_BLOCK

\* Mutant: the constructor accepts a hazard next to the start cell.
ConstructorAccepts_NoAsserts(w, ps) == TRUE

\* The asserts of WumpusWorld.__init__
ConstructorAccepts(w, ps) ==
    /\ ~InFairBlock(w)
    /\ \A pit \in ps : ~InFairBlock(pit)

\* The cells next to p, from the world's _get_neighbors.
AdjacentTo(p) == IF p \in Cells THEN NeighborSet(p) ELSE {}

stenches == AdjacentTo(wumpus_pos)

breezes == UNION {AdjacentTo(pit) : pit \in pits}

\* wumpus.py only: the cells next to paradise glow.
glows == AdjacentTo(paradise_pos)

\* WumpusWorld.get_percepts
get_percepts(p) ==
    (IF p \in stenches THEN {"Stench"} ELSE {})
    \cup (IF p \in breezes THEN {"Breeze"} ELSE {})
    \cup (IF variant = "wumpus"
          THEN (IF p \in glows THEN {"Glitter"} ELSE {})
          ELSE (IF p = paradise_pos THEN {"Glowing"} ELSE {}))

\* Mutant: only the pits are deadly.
is_deadly_PitsOnly(p) == p \in pits

\* WumpusWorld.is_deadly (is_terminal in app.py)
is_deadly(p) == p = wumpus_pos \/ p \in pits

\* WumpusWorld.is_paradise
is_paradise(p) == p = paradise_pos

\* WumpusAgent.has_won
has_won == is_paradise(pos)

\* ------------------------------------------------------------ WumpusAgent
\* The directions move is called with: the four the lookup knows, one of them
\* in capitals, and one it does not know. ("None" stands for Python's None,
\* which only decide_next_move passes.)
Directions == {"UP", "down", "left", "right", "north"}

\* str.lower() on the directions above
Lower(direction) == IF direction = "UP" THEN "up" ELSE direction

\* The delta lookup of move, with its (0, 0) default.
DirectionDelta(direction) ==
    CASE Lower(direction) = "up"    -> <<-1, 0>>
      [] Lower(direction) = "down"  -> <<1, 0>>
      [] Lower(direction) = "left"  -> <<0, -1>>
      [] Lower(direction) = "right" -> <<0, 1>>
      [] OTHER                      -> <<0, 0>>

\* Mutant: the test forgets that the agent may be dead.
SimulationEnded_IgnoresAlive == moves_made >= max_moves

\* Mutant: the budget test lets one move too many through.
SimulationEnded_OffByOne == ~alive \/ moves_made > max_moves

\* The first test of move: the session is over.
SimulationEnded == ~alive \/ moves_made >= max_moves

\* The second test of move (wumpus.py only): the agent stands on paradise.
AlreadyWon == variant = "wumpus" /\ is_paradise(pos)

\* The bounds test of move on the destination.
OutOfBounds(new) ==
    ~(0 <= new[1] /\ new[1] < GRID_SIZE /\ 0 <= new[2] /\ new[2] < GRID_SIZE)

\* Mutant: the agent records the percepts and skips the inference.
Observe_SkipsProbabilities(km, p) == update_percepts(km, p, get_percepts(p))

\* The knowledge base after the agent enters p.
Observe(km, p) == update_probabilities(update_percepts(km, p, get_percepts(p)))

\* Mutant: the move is counted before it is rejected.
Rejected_CountsMove(message) ==
    /\ ret' = [success |-> FALSE, message |-> message]
    /\ moves_made' = moves_made + 1
    /\ UNCHANGED <<pos, alive>>

\* An early return of move: (False, message), no field of the agent changed.
Rejected(message) ==
    /\ ret' = [success |-> FALSE, message |-> message]
    /\ UNCHANGED agent_vars

\* Mutant: a committed move is not counted.
Counted_Forgets(n) == n

\* self.moves_made += 1
Counted(n) == n + 1

\* WumpusAgent.move on the fields of the agent and its return value; what it
\* does to the knowledge base is KnowledgeFollows.
move_agent(direction) ==
    IF SimulationEnded THEN Rejected("Simulation Ended.")
    ELSE IF AlreadyWon
    THEN Rejected("No need to move from paradise! You already won!")
    ELSE IF direction = "None"
    THEN /\ ret' = [raised |-> "AttributeError"]
         /\ UNCHANGED agent_vars
    ELSE LET new == Shift(pos, DirectionDelta(direction))
         IN  IF OutOfBounds(new) THEN Rejected("Move cancelled: Out of bounds.")
             ELSE /\ pos' = new
                  /\ moves_made' = Counted(moves_made)
                  /\ IF is_deadly(new)
                     THEN /\ alive' = FALSE
                          /\ ret' = [success |-> FALSE, message |-> "TRAGEDY!",
                                     at |-> <<new[1] + 1, new[2] + 1>>,
                                     danger |-> IF new = wumpus_pos
                                                THEN "Wumpus" ELSE "Pit"]
                     ELSE /\ alive' = alive
                          /\ ret' = IF variant = "wumpus" /\ is_paradise(new)
                                    THEN [success |-> TRUE,
                                          message |-> "Found paradise",
                                          at |-> <<new[1] + 1, new[2] + 1>>]
                                    ELSE [success |-> TRUE,
                                          message |-> "Moved to",
                                          at |-> <<new[1] + 1, new[2] + 1>>,
                                          percepts |-> get_percepts(new)]

\* Mutant: the agent observes the cell it has stepped on before the death test.
KnowledgeFollows_ObservesTheDead ==
    knowledge_map' = IF moves_made' # moves_made
                     THEN Observe(knowledge_map, pos')
                     ELSE knowledge_map

\* The knowledge base after move: update_percepts and update_probabilities run
\* on the new cell exactly on the two paths that return True; every other path
\* returns before them.
KnowledgeFollows ==
    knowledge_map' = IF "success" \in DOMAIN ret' /\ ret'.success
                     THEN Observe(knowledge_map, pos')
                     ELSE knowledge_map

\* WumpusAgent.move
move(direction) == move_agent(direction) /\ KnowledgeFollows

SeqToSet(s) == {s[i] : i \in 1 .. Len(s)}

\* Mutant: tier 1 takes every unvisited neighbour, proven safe or not.
safe_unvisited_moves_AnyUnvisited ==
    LET Unvisited(q) == ~knowledge_map[q].visited
    IN  SelectSeq(get_neighbors(pos), Unvisited)

\* Tier 1: the unvisited, proven-safe neighbours.
safe_unvisited_moves ==
    LET Frontier(q) == ~knowledge_map[q].visited /\ knowledge_map[q].is_safe
    IN  SelectSeq(get_neighbors(pos), Frontier)

\* Tier 2: the visited neighbours.
visited_moves ==
    LET Visited(q) == knowledge_map[q].visited
    IN  SelectSeq(get_neighbors(pos), Visited)

\* Tier 3 (app.py only): the unvisited neighbours.
explorable_moves ==
    LET Unvisited(q) == ~knowledge_map[q].visited
    IN  SelectSeq(get_neighbors(pos), Unvisited)

total_danger(q) == knowledge_map[q].prob_pit + knowledge_map[q].prob_wumpus

\* min(explorable_moves, key=danger): the first of the least dangerous.
best_unknown_move ==
    LET e == explorable_moves
        i == CHOOSE i \in 1 .. Len(e) :
                /\ \A j \in 1 .. Len(e) : total_danger(e[i]) <= total_danger(e[j])
                /\ \A j \in 1 .. (i - 1) : total_danger(e[j]) > total_danger(e[i])
    IN  e[i]

\* Mutant: the policy backtracks before it explores.
choose_next_move_VisitedFirst ==
    IF visited_moves # <<>> THEN SeqToSet(visited_moves)
    ELSE SeqToSet(safe_unvisited_moves)

\* The cells _choose_next_move may return; empty when random.choice raises.
choose_next_move ==
    IF safe_unvisited_moves # <<>> THEN SeqToSet(safe_unvisited_moves)
    ELSE IF visited_moves # <<>> THEN SeqToSet(visited_moves)
    ELSE IF variant = "wumpus" THEN {}
    ELSE IF explorable_moves # <<>> THEN {best_unknown_move}
    ELSE {pos}

\* Mutant: the lookup reads the delta as (column, row).
DeltaDirection_Transposed(delta) ==
    CASE delta = <<0, -1>> -> "up"
      [] delta = <<0, 1>>  -> "down"
      [] delta = <<-1, 0>> -> "left"
      [] delta = <<1, 0>>  -> "right"
      [] OTHER             -> "None"

\* The delta lookup of decide_next_move, None when the delta is no unit step.
DeltaDirection(delta) ==
    CASE delta = <<-1, 0>> -> "up"
      [] delta = <<1, 0>>  -> "down"
      [] delta = <<0, -1>> -> "left"
      [] delta = <<0, 1>>  -> "right"
      [] OTHER             -> "None"

\* ------------------------------------------------------------ the session
\* The worlds a session is started in: the wumpus, at most MaxPits pits and
\* paradise, each on one of a few cells. Paradise may share a cell with a hazard
\* (the constructor does not forbid it), and so may a pit and the wumpus. The
\* constructor refuses the wumpus on <<0, 1>>.
WumpusCells == {<<0, 1>>, <<2, 0>>, <<1, 2>>, <<3, 3>>}

PitCells == {<<0, 2>>, <<2, 1>>}

ParadiseCells == {<<1, 1>>, <<0, 2>>}

PitSets == {ps \in SUBSET PitCells : Cardinality(ps) <= MaxPits}

\* init_game: a world, then WumpusAgent.__init__ at START_POS.
Init ==
    /\ variant \in {"wumpus", "app"}
    /\ wumpus_pos \in WumpusCells
    /\ pits \in PitSets
    /\ paradise_pos \in ParadiseCells
    /\ ConstructorAccepts(wumpus_pos, pits)
    /\ pos = START_POS
    /\ moves_made = 0
    /\ alive = TRUE
    /\ max_moves = MaxMoves
    /\ knowledge_map = Observe(NewKnowledge(START_POS), START_POS)
    /\ call = [op |-> "init"]
    /\ ret = [success |-> TRUE, message |-> "init"]
    /\ calls = 0

\* handle_move: WumpusAgent.move(direction)
Move(direction) ==
    /\ call' = [op |-> "move", direction |-> direction]
    /\ move(direction)
    /\ UNCHANGED <<world_vars, calls>>

\* WumpusAgent._choose_next_move(), called on its own: the cell it returns.
ChooseNextMove ==
    /\ call' = [op |-> "_choose_next_move"]
    /\ IF choose_next_move = {}
       THEN ret' = [raised |-> "IndexError"]
       ELSE \E target \in choose_next_move : ret' = [target |-> target]
    /\ UNCHANGED <<world_vars, agent_vars, knowledge_map, calls>>

\* WumpusAgent.decide_next_move on the fields of the agent and its return
\* value: _choose_next_move, the delta lookup, then move.
decide_next_move ==
    IF choose_next_move = {}
    THEN /\ call' = [op |-> "decide_next_move"]
         /\ ret' = [raised |-> "IndexError"]
         /\ UNCHANGED agent_vars
    ELSE \E target \in choose_next_move :
            LET direction == DeltaDirection(<<target[1] - pos[1], target[2] - pos[2]>>)
            IN  /\ call' = [op |-> "decide_next_move", target |-> target,
                            direction |-> direction]
                /\ move_agent(direction)

\* handle_decide_move: WumpusAgent.decide_next_move() (wumpus.py only)
DecideNextMove ==
    /\ variant = "wumpus"
    /\ decide_next_move
    /\ KnowledgeFollows
    /\ UNCHANGED <<world_vars, calls>>

\* handle_query: AgentKnowledge.query(r, c)
Query(qr, qc) ==
    /\ call' = [op |-> "query", r |-> qr, c |-> qc]
    /\ ret' = query(knowledge_map, qr, qc)
    /\ UNCHANGED <<world_vars, agent_vars, knowledge_map, calls>>

\* The coordinates query is called with: two outside the grid, one inside.
QueryInputs == {<<-1, 0>>, <<0, size>>, <<1, 2>>}

Next ==
    \/ \E direction \in Directions : Move(direction)
    \/ DecideNextMove
    \/ ChooseNextMove
    \/ \E q \in QueryInputs : Query(q[1], q[2])

Spec == Init /\ [][Next]_vars

\* ------------------------------------------------------------ the policy on its own
\* The worlds the policy is run in: the wumpus on any cell the constructor
\* accepts, at most MaxAutoPits pits outside the start block, paradise near the
\* start or in the far corner.
AutoPitCells == {p \in Cells : ~InFairBlock(p)}

AutoPitSets == {ps \in SUBSET AutoPitCells : Cardinality(ps) <= MaxAutoPits}

AutoParadiseCells == ParadiseCells \cup {<<size - 1, size - 1>>}

\* init_game, for a session of wumpus.py driven by /decide_move alone.
InitAuto ==
    /\ variant = "wumpus"
    /\ wumpus_pos \in Cells
    /\ pits \in AutoPitSets
    /\ paradise_pos \in AutoParadiseCells
    /\ ConstructorAccepts(wumpus_pos, pits)
    /\ pos = START_POS
    /\ moves_made = 0
    /\ alive = TRUE
    /\ max_moves = MaxAutoMoves
    /\ knowledge_map = Observe(NewKnowledge(START_POS), START_POS)
    /\ call = [op |-> "init"]
    /\ ret = [success |-> TRUE, message |-> "init"]
    /\ calls = 0

NextAuto == DecideNextMove

SpecAuto == InitAuto /\ [][NextAuto]_vars

\* What a decide_next_move call shows of itself: the agent's fields, the call
\* and its return value.
decide_view == <<agent_vars, call, ret>>

\* The client posts /decide_move again and again: as long as a call would
\* change what the agent shows, one such call is made. (The knowledge base
\* follows from the call, so it is left out of the fairness condition.)
SpecAutoFair == SpecAuto /\ WF_decide_view(variant = "wumpus" /\ decide_next_move)

\* ------------------------------------------------------------ the bare knowledge base
\* The percept sets update_percepts is handed.
PerceptSets == (SUBSET {"Breeze", "Stench"}) \cup {{"Glitter"}}

\* The cells update_percepts is called for: the block of the grid that holds a
\* corner, edge cells and cells with four neighbours.
VisitCells == {p \in Cells : p[1] < size - 1 /\ p[2] < size - 1}

\* AgentKnowledge(GRID_SIZE, START_POS), with no world and no agent behind it.
InitKB ==
    /\ variant = "kb"
    /\ wumpus_pos = <<GRID_SIZE, GRID_SIZE>>
    /\ pits = {}
    /\ paradise_pos = <<GRID_SIZE, GRID_SIZE>>
    /\ pos = START_POS
    /\ moves_made = 0
    /\ alive = TRUE
    /\ max_moves = MaxMoves
    /\ knowledge_map = NewKnowledge(START_POS)
    /\ call = [op |-> "init"]
    /\ ret = [success |-> TRUE, message |-> "init"]
    /\ calls = 0

UpdatePercepts(p, percepts) ==
    /\ calls < MaxCalls
    /\ calls' = calls + 1
    /\ call' = [op |-> "update_percepts", p |-> p, percepts |-> percepts]
    /\ knowledge_map' = update_percepts(knowledge_map, p, percepts)
    /\ ret' = [returned |-> "None"]
    /\ UNCHANGED <<world_vars, agent_vars>>

UpdateProbabilities ==
    /\ call' = [op |-> "update_probabilities"]
    /\ knowledge_map' = update_probabilities(knowledge_map)
    /\ ret' = [returned |-> "None"]
    /\ UNCHANGED <<world_vars, agent_vars, calls>>

NextKB ==
    \/ \E p \in VisitCells, percepts \in PerceptSets : UpdatePercepts(p, percepts)
    \/ UpdateProbabilities
    \/ \E q \in QueryInputs : Query(q[1], q[2])

SpecKB == InitKB /\ [][NextKB]_vars

\* ------------------------------------------------------------ properties
\* The neighbours of p that are not proven safe in the current grid.
NotSafeNeighbors(p) == {q \in NeighborSet(p) : ~knowledge_map[q].is_safe}

\* The visited cells next to q whose stored percepts hold the indicator.
Sources(q, indicator) ==
    {p \in NeighborSet(q) :
        knowledge_map[p].visited /\ indicator \in knowledge_map[p].percepts}

\* q is the one neighbour some source has left: the target of an elimination.
EliminationTarget(q, indicator) ==
    \E p \in Sources(q, indicator) : NotSafeNeighbors(p) = {q}

\* The largest element of a set of numbers, 0 for the empty set.
SetMax(S) == IF S = {} THEN 0 ELSE CHOOSE m \in S : \A x \in S : x <= m

NoHazardIndicator(percepts) == "Breeze" \notin percepts /\ "Stench" \notin percepts

\* In the grid km, every unvisited neighbour of p is proven safe with both
\* probabilities 0.
SafeAround(km, p) ==
    \A q \in NeighborSet(p) :
        ~km[q].visited =>
            /\ km[q].is_safe
            /\ km[q].prob_pit = 0
            /\ km[q].prob_wumpus = 0

\* C1: in every reachable state of the knowledge base, every visited cell is
\* proven safe and has both probabilities 0.
C1_VisitedInvariant ==
    \A p \in Cells :
        knowledge_map[p].visited =>
            /\ knowledge_map[p].is_safe
            /\ knowledge_map[p].prob_pit = 0
            /\ knowledge_map[p].prob_wumpus = 0

\* C1's case: a cell that held a probability of 1/2 has since been visited.
C1_Witness ==
    /\ call.op = "update_percepts"
    /\ calls = 2
    /\ \E p \in Cells :
          /\ "Breeze" \in knowledge_map[p].percepts
          /\ knowledge_map[call.p].visited
          /\ call.p \in NeighborSet(p)
          /\ \E q \in NeighborSet(p) : knowledge_map[q].prob_pit = ONE \div 2

\* C2: right after update_percepts(p, S) with neither Breeze nor Stench in S,
\* every unvisited neighbour of p is proven safe with both probabilities 0, and
\* the update_probabilities() that follows leaves it so.
C2_SafetyPropagation ==
    [][/\ (call'.op = "update_percepts" /\ NoHazardIndicator(call'.percepts))
             => SafeAround(knowledge_map', call'.p)
       /\ (/\ call.op = "update_percepts"
           /\ NoHazardIndicator(call.percepts)
           /\ call'.op = "update_probabilities")
             => SafeAround(knowledge_map', call.p)]_vars

\* C2's case: (0,0) was visited with no hazard indicator (though with Glitter)
\* and (0,1) and (1,0), until then unknown, are safe.
C2_Witness ==
    /\ call.op = "update_percepts"
    /\ call.p = <<0, 0>>
    /\ call.percepts = {"Glitter"}
    /\ calls = 1
    /\ knowledge_map[<<0, 1>>].is_safe
    /\ knowledge_map[<<1, 0>>].is_safe

\* C3: at the end of update_probabilities(), a visited cell with Breeze (Stench)
\* and exactly one neighbour not proven safe has that neighbour at prob_pit
\* (prob_wumpus) 1.0 and not safe.
C3_EliminationDeterminism ==
    call.op = "update_probabilities" =>
        \A p \in Cells :
            (knowledge_map[p].visited /\ Cardinality(NotSafeNeighbors(p)) = 1) =>
                \A q \in NotSafeNeighbors(p) :
                    /\ "Breeze" \in knowledge_map[p].percepts
                          => knowledge_map[q].prob_pit = ONE
                    /\ "Stench" \in knowledge_map[p].percepts
                          => knowledge_map[q].prob_wumpus = ONE
                    /\ ~knowledge_map[q].is_safe

\* C3's case: a Stench cell whose other candidate has been visited since, so that
\* one neighbour is left and is certain.
C3_Witness ==
    /\ call.op = "update_probabilities"
    /\ calls = 2
    /\ \E p \in Cells :
          /\ knowledge_map[p].visited
          /\ "Stench" \in knowledge_map[p].percepts
          /\ Cardinality(NotSafeNeighbors(p)) = 1
          /\ \E n \in NeighborSet(p) : knowledge_map[n].visited
          /\ \A q \in NotSafeNeighbors(p) : knowledge_map[q].prob_wumpus = ONE

\* C4: at the end of update_probabilities(), each of the k > 1 neighbours not
\* proven safe of a visited Breeze (Stench) cell has prob_pit (prob_wumpus) at
\* least 1/k, and exactly 1/k when that cell is its only source of evidence.
C4_DistributedEvidenceBound ==
    call.op = "update_probabilities" =>
        \A p \in Cells :
            LET k == Cardinality(NotSafeNeighbors(p))
            IN  (knowledge_map[p].visited /\ k > 1) =>
                    \A q \in NotSafeNeighbors(p) :
                        /\ "Breeze" \in knowledge_map[p].percepts =>
                              /\ knowledge_map[q].prob_pit >= ONE \div k
                              /\ Sources(q, "Breeze") = {p}
                                    => knowledge_map[q].prob_pit = ONE \div k
                        /\ "Stench" \in knowledge_map[p].percepts =>
                              /\ knowledge_map[q].prob_wumpus >= ONE \div k
                              /\ Sources(q, "Stench") = {p}
                                    => knowledge_map[q].prob_wumpus = ONE \div k

\* C4's case: a single Breeze cell with two unknown neighbours, each at 1/2.
C4_Witness ==
    /\ call.op = "update_probabilities"
    /\ \E p \in Cells :
          /\ knowledge_map[p].visited
          /\ "Breeze" \in knowledge_map[p].percepts
          /\ Cardinality(NotSafeNeighbors(p)) = 2
          /\ \A q \in NotSafeNeighbors(p) :
                /\ Sources(q, "Breeze") = {p}
                /\ knowledge_map[q].prob_pit = ONE \div 2

\* The shares 1/k the sources next to q hand out.
Contributions(q, indicator) ==
    {ONE \div Cardinality(NotSafeNeighbors(p)) : p \in Sources(q, indicator)}

\* C5: after update_probabilities() (in a session: in every state), a cell not
\* proven safe has prob_pit 1.0 if it is the target of an elimination, and else
\* the maximum of the shares of the Breeze cells next to it (0 with none);
\* likewise for Stench and prob_wumpus.
C5_MaximumEvidence ==
    \A q \in Cells :
        ~knowledge_map[q].is_safe =>
            /\ knowledge_map[q].prob_pit =
                  IF EliminationTarget(q, "Breeze") THEN ONE
                  ELSE SetMax(Contributions(q, "Breeze"))
            /\ knowledge_map[q].prob_wumpus =
                  IF EliminationTarget(q, "Stench") THEN ONE
                  ELSE SetMax(Contributions(q, "Stench"))

\* C5's case: a cell between two Breeze cells, each giving it a share, that is
\* the target of no elimination.
C5_Witness ==
    \E q \in Cells :
        /\ ~knowledge_map[q].is_safe
        /\ ~EliminationTarget(q, "Breeze")
        /\ Cardinality(Sources(q, "Breeze")) >= 2
        /\ knowledge_map[q].prob_pit = ONE \div 2

\* A further case of C5: the target of an elimination that also gets a share.
C5_TargetWithShare ==
    \E q \in Cells :
        /\ EliminationTarget(q, "Breeze")
        /\ \E p \in Sources(q, "Breeze") : Cardinality(NotSafeNeighbors(p)) > 1
        /\ knowledge_map[q].prob_pit = ONE

\* What a rejected call leaves alone.
session_state == <<pos, moves_made, alive, knowledge_map>>

Ended == [success |-> FALSE, message |-> "Simulation Ended."]

\* C6: in a session, a probability that is 1.0 stays 1.0 through every later
\* call (each committed move ends with update_probabilities()).
C6_CertaintyMonotone ==
    [][\A p \in Cells :
          /\ knowledge_map[p].prob_pit = ONE => knowledge_map'[p].prob_pit = ONE
          /\ knowledge_map[p].prob_wumpus = ONE
                => knowledge_map'[p].prob_wumpus = ONE]_vars

\* C6's case: a cell is certain and the agent has since moved back to the start
\* cell, which ran update_percepts and update_probabilities once more.
C6_Witness ==
    /\ call.op = "move"
    /\ ret.success
    /\ pos = START_POS
    /\ \E q \in Cells :
          knowledge_map[q].prob_pit = ONE \/ knowledge_map[q].prob_wumpus = ONE

\* C7: a committed move onto a pit or the wumpus leaves alive = false and
\* returns success = false; once the agent is dead every move returns
\* (False, "Simulation Ended.") and changes nothing.
C7_MovementTermination ==
    [][/\ (moves_made' = moves_made + 1 /\ is_deadly(pos'))
             => (~alive' /\ ret'.success = FALSE)
       /\ (call'.op = "move" /\ ~alive)
             => (ret' = Ended /\ UNCHANGED session_state)]_vars

\* C7's case: the agent is dead with moves left, and a move was just refused.
C7_Witness ==
    /\ ~alive
    /\ moves_made < max_moves
    /\ call.op = "move"
    /\ ret = Ended

\* The directions the lookup of move resolves.
Resolvable(direction) == Lower(direction) \in {"up", "down", "left", "right"}

\* C8: a move with a direction that resolves to none of up, down, left, right
\* returns success = false and changes nothing.
C8_UnresolvedDirectionRejected ==
    [][(call'.op = "move" /\ ~Resolvable(call'.direction))
          => (ret'.success = FALSE /\ UNCHANGED session_state)]_vars

\* C9: a move whose destination lies outside the grid returns success = false
\* and changes nothing, the move counter included; the agent is always inside
\* the grid.
C9_OutOfBoundsRejected ==
    [][/\ (call'.op = "move"
           /\ ~InBounds(Shift(pos, DirectionDelta(call'.direction))))
             => (ret'.success = FALSE /\ UNCHANGED session_state)
       /\ InBounds(pos)
       /\ InBounds(pos')]_vars

\* C9's case: the agent has moved, then asked for a move off the grid while the
\* session was still active.
C9_Witness ==
    /\ call.op = "move"
    /\ ret = [success |-> FALSE, message |-> "Move cancelled: Out of bounds."]
    /\ moves_made > 0
    /\ pos # START_POS

\* What a committed move to the cell p reports.
Outcome(p) ==
    IF is_deadly(p)
    THEN [success |-> FALSE, message |-> "TRAGEDY!", at |-> <<p[1] + 1, p[2] + 1>>,
          danger |-> IF p = wumpus_pos THEN "Wumpus" ELSE "Pit"]
    ELSE IF variant = "wumpus" /\ p = paradise_pos
    THEN [success |-> TRUE, message |-> "Found paradise",
          at |-> <<p[1] + 1, p[2] + 1>>]
    ELSE [success |-> TRUE, message |-> "Moved to", at |-> <<p[1] + 1, p[2] + 1>>,
          percepts |-> get_percepts(p)]

\* C10: with moves_made >= max_moves every move returns
\* (False, "Simulation Ended.") and changes nothing; the move that reaches
\* max_moves reports its own outcome; moves_made never passes max_moves.
C10_Exhausted ==
    [][call'.op = "move" =>
          /\ moves_made >= max_moves => (ret' = Ended /\ UNCHANGED session_state)
          /\ (moves_made = max_moves - 1 /\ moves_made' = max_moves)
                => ret' = Outcome(pos')
          /\ moves_made' <= max_moves]_vars

\* C10's case: the budget is spent while the agent is alive and on the goal, and
\* a move was just refused.
C10_Witness ==
    /\ moves_made = max_moves
    /\ alive
    /\ has_won
    /\ call.op = "move"
    /\ ret = Ended

\* Further cases of C10: the last move of the budget was a death, and the budget
\* is spent with the agent dead.
C10_LastMoveDeath ==
    /\ moves_made = max_moves
    /\ call.op = "move"
    /\ ret.message = "TRAGEDY!"

\* The agent is alive with moves left and stands on the goal.
AtGoalActive == alive /\ moves_made < max_moves /\ pos = paradise_pos

\* C11: while the agent is alive with moves left and stands on the goal, move
\* returns success = false for every direction and changes neither position,
\* move counter nor belief grid.
C11_GoalIsAbsorbing ==
    [][(call'.op = "move" /\ AtGoalActive)
          => (ret'.success = FALSE /\ UNCHANGED session_state)]_vars

\* C11 for wumpus.py alone, whose move tests is_paradise before it resolves the
\* direction.
C11_GoalIsAbsorbing_wumpus ==
    [][(variant = "wumpus" /\ call'.op = "move" /\ AtGoalActive)
          => (/\ ret' = [success |-> FALSE,
                         message |-> "No need to move from paradise! You already won!"]
              /\ UNCHANGED session_state)]_vars

\* C11's case in wumpus.py: a move was refused on the goal.
C11_Refused_wumpus ==
    /\ AtGoalActive
    /\ call.op = "move"
    /\ ret.message = "No need to move from paradise! You already won!"

InvalidChamber == [error |-> "Invalid Chamber Coordinates."]

\* The coordinates around and on the grid.
NearCoordinates == (-1 .. size) \X (-1 .. size)

\* C12: query outside [0,size) x [0,size) returns exactly the error result, and
\* a query on any coordinate changes no cell of the belief grid and no agent
\* run state.
C12_QueryBounds ==
    [][/\ \A q \in NearCoordinates \ Cells :
             query(knowledge_map, q[1], q[2]) = InvalidChamber
       /\ call'.op = "query"
             => /\ UNCHANGED session_state
                /\ ~InBounds(<<call'.r, call'.c>>) => ret' = InvalidChamber]_vars

\* C12's case: after a move, a query with a negative row was answered with the
\* error result.
C12_Witness ==
    /\ call.op = "query"
    /\ call.r < 0
    /\ ret = InvalidChamber
    /\ moves_made > 0

\* The status C13 states for a cell: certainty first, then visited, then safe.
StatedStatus(cell) ==
    IF cell.prob_pit >= ONE \/ cell.prob_wumpus >= ONE THEN "DEFINITELY DANGEROUS"
    ELSE IF cell.visited THEN "SAFE (VISITED)"
    ELSE IF cell.is_safe THEN "SAFE"
    ELSE "UNKNOWN"

\* What C13 states of the answer r to a query on the in-bounds cell p.
StatedAnswer(r, p) ==
    LET cell == knowledge_map[p]
    IN  /\ r.status = StatedStatus(cell)
        /\ r.coords = <<p[1] + 1, p[2] + 1>>
        /\ (r.inferred_percepts # <<>>)
              <=> (~cell.visited /\ (cell.prob_pit = ONE \/ cell.prob_wumpus = ONE))

\* C13: for every in-bounds cell of every reachable belief grid, query reports
\* DEFINITELY DANGEROUS if a probability is 1.0, else SAFE (VISITED) if visited,
\* else SAFE if is_safe, else UNKNOWN, with 1-indexed coordinates and a
\* certainty note exactly for unvisited cells with a probability at 1.0.
C13_QueryStatus ==
    /\ \A p \in Cells : StatedAnswer(query(knowledge_map, p[1], p[2]), p)
    /\ (call.op = "query" /\ InBounds(<<call.r, call.c>>))
          => StatedAnswer(ret, <<call.r, call.c>>)

\* C13's case: a query on a cell proven to hold the wumpus was answered.
C13_Witness ==
    /\ call.op = "query"
    /\ InBounds(<<call.r, call.c>>)
    /\ ret.status = "DEFINITELY DANGEROUS"
    /\ ret.inferred_percepts # <<>>

\* Further cases of C13: every status is reported for some cell.
C13_AllStatuses ==
    \A status \in {"DEFINITELY DANGEROUS", "SAFE (VISITED)", "SAFE", "UNKNOWN"} :
        \E p \in Cells : query(knowledge_map, p[1], p[2]).status = status

\* The neighbours of the agent that are unvisited and proven safe, and those
\* that are visited.
FrontierSafe == {q \in NeighborSet(pos) : ~knowledge_map[q].visited /\ knowledge_map[q].is_safe}

VisitedNeighbors == {q \in NeighborSet(pos) : knowledge_map[q].visited}

\* What C14 states of a cell t returned by _choose_next_move.
PolicyOrder(t) ==
    /\ FrontierSafe # {} => t \in FrontierSafe
    /\ (FrontierSafe = {} /\ VisitedNeighbors # {}) => t \in VisitedNeighbors

\* C14: _choose_next_move returns an unvisited proven-safe neighbour whenever
\* one exists (any of them may be returned) and a visited neighbour only when
\* none exists; it never returns an unvisited, unproven cell while one of the
\* two kinds exists.
C14_PolicyTiers ==
    [][/\ FrontierSafe # {} => FrontierSafe \subseteq choose_next_move
       /\ (call'.op = "_choose_next_move" /\ "target" \in DOMAIN ret')
             => PolicyOrder(ret'.target)
       /\ (call'.op = "decide_next_move" /\ "target" \in DOMAIN call')
             => PolicyOrder(call'.target)]_vars

\* C14's case: with no frontier-safe neighbour left, _choose_next_move returned
\* a visited neighbour.
C14_Witness ==
    /\ call.op = "_choose_next_move"
    /\ "target" \in DOMAIN ret
    /\ FrontierSafe = {}
    /\ ret.target \in VisitedNeighbors
    /\ moves_made > 0

\* Further case of C14: a frontier-safe neighbour was returned while a visited
\* neighbour existed.
C14_FrontierPreferred ==
    /\ call.op = "_choose_next_move"
    /\ "target" \in DOMAIN ret
    /\ ret.target \in FrontierSafe
    /\ VisitedNeighbors # {}
    /\ variant = "app"

\* The session accepts a move: not ended, and (wumpus.py) not on the goal.
Active == ~SimulationEnded /\ ~AlreadyWon

Delta(t, p) == <<t[1] - p[1], t[2] - p[2]>>

\* The deltas that are no unit step, (0, 0) among them.
NonUnitDeltas ==
    {d \in (-2 .. 2) \X (-2 .. 2) :
        d \notin {<<-1, 0>>, <<1, 0>>, <<0, -1>>, <<0, 1>>}}

\* C15: for every in-bounds neighbour t of the position, the direction the
\* delta lookup of decide_next_move gives leads move back to t, and in an
\* active session decide_next_move commits the agent to exactly its target; a
\* delta that is no unit step resolves to no direction.
C15_DirectionRoundTrip ==
    [][/\ \A t \in NeighborSet(pos) :
             LET direction == DeltaDirection(Delta(t, pos))
             IN  /\ direction # "None"
                 /\ Shift(pos, DirectionDelta(direction)) = t
       /\ \A d \in NonUnitDeltas : DeltaDirection(d) = "None"
       /\ (call'.op = "decide_next_move" /\ "target" \in DOMAIN call' /\ Active
           /\ call'.target \in NeighborSet(pos))
             => (pos' = call'.target /\ moves_made' = moves_made + 1)]_vars

\* C15's case: decide_next_move chose the cell above the agent and the agent
\* now stands on it.
C15_Witness ==
    /\ call.op = "decide_next_move"
    /\ "target" \in DOMAIN call
    /\ call.direction = "up"
    /\ ret.success
    /\ pos = call.target

\* update_percepts(p, S) then update_probabilities(), as move runs them.
Reenter(km, p, percepts) == update_probabilities(update_percepts(km, p, percepts))

\* C16: in every reachable state, for a cell p already visited with percepts
\* S, update_percepts(p, S) followed by update_probabilities() leaves every
\* field of every cell unchanged.
C16_ReentryIdempotent ==
    \A p \in Cells :
        knowledge_map[p].visited
           => Reenter(knowledge_map, p, knowledge_map[p].percepts) = knowledge_map

\* C16's case: the agent went (0,0) -> (0,1) -> (1,1) -> (0,1); the last move
\* re-entered a cell with a Breeze while evidence lies on the grid.
C16_Witness ==
    /\ call.op = "move"
    /\ ret.success
    /\ moves_made = 3
    /\ pos = <<0, 1>>
    /\ {q \in Cells : knowledge_map[q].visited} = {<<0, 0>>, <<0, 1>>, <<1, 1>>}
    /\ "Breeze" \in knowledge_map[pos].percepts
    /\ \E q \in Cells : knowledge_map[q].prob_pit + knowledge_map[q].prob_wumpus > 0

\* C16 seen from move: a committed move onto a visited cell leaves the grid as
\* it was.
C16_MoveBackKeepsGrid ==
    [][(moves_made' = moves_made + 1 /\ alive' /\ knowledge_map[pos'].visited)
          => knowledge_map' = knowledge_map]_vars

\* C16 on the bare knowledge base, in the states that end an
\* update_probabilities() call.
C16_ReentryIdempotent_KB ==
    call.op = "update_probabilities"
       => \A p \in Cells :
             knowledge_map[p].visited
                => Reenter(knowledge_map, p, knowledge_map[p].percepts) = knowledge_map

\* C17: in every reachable state no cell with is_safe = true holds a pit or the
\* wumpus, every cell with prob_pit = 1.0 holds a pit and every cell with
\* prob_wumpus = 1.0 holds the wumpus.
C17_InferenceSound ==
    \A p \in Cells :
        /\ knowledge_map[p].is_safe => ~is_deadly(p)
        /\ knowledge_map[p].prob_pit = ONE => p \in pits
        /\ knowledge_map[p].prob_wumpus = ONE => p = wumpus_pos

\* C17's case: the agent has proven a hazard by elimination and has proven an
\* unvisited cell safe, next to a cell that is neither.
C17_Witness ==
    /\ \E q \in Cells : knowledge_map[q].prob_pit = ONE \/ knowledge_map[q].prob_wumpus = ONE
    /\ \E q \in Cells : knowledge_map[q].is_safe /\ ~knowledge_map[q].visited
    /\ \E q \in Cells : ~knowledge_map[q].is_safe /\ ~is_deadly(q)

\* Further cases of C17: a pit is proven, and the wumpus is proven.
C17_PitProven == \E q \in Cells : knowledge_map[q].prob_pit = ONE

C17_WumpusProven == \E q \in Cells : knowledge_map[q].prob_wumpus = ONE

\* C18: driven by decide_next_move alone the agent never dies: alive stays
\* true and the cell the policy led to holds no hazard.
C18_PolicyNeverDies ==
    /\ alive
    /\ ~is_deadly(pos)
    /\ choose_next_move \subseteq {q \in Cells : knowledge_map[q].visited \/ knowledge_map[q].is_safe}

\* C18's case: the policy has spent the budget, stands next to a hazard it has
\* perceived, and has only the way back.
C18_Witness ==
    /\ call.op = "decide_next_move"
    /\ ret.success
    /\ moves_made = max_moves
    /\ knowledge_map[pos].percepts \cap {"Breeze", "Stench"} # {}
    /\ \E q \in NeighborSet(pos) : is_deadly(q)
    /\ FrontierSafe = {}

\* The cell t lies one step up, down, left or right of the agent.
UnitStep(t) == Delta(t, pos) \in {<<-1, 0>>, <<1, 0>>, <<0, -1>>, <<0, 1>>}

\* C19: in every reachable state the policy has a frontier-safe or a visited
\* neighbour: _choose_next_move never draws from an empty list, never reaches
\* the calculated-risk or stuck tier, and returns a cell one step away, so
\* decide_next_move resolves a direction.
C19_PolicyNeverStuck ==
    /\ safe_unvisited_moves # <<>> \/ visited_moves # <<>>
    /\ choose_next_move # {}
    /\ \A t \in choose_next_move :
          UnitStep(t) /\ DeltaDirection(Delta(t, pos)) # "None"
    /\ call.op \in {"_choose_next_move", "decide_next_move"}
          => "raised" \notin DOMAIN ret

\* C19's case: the agent is dead on a hazard cell and _choose_next_move still
\* returned a neighbour.
C19_Witness ==
    /\ ~alive
    /\ call.op = "_choose_next_move"
    /\ "target" \in DOMAIN ret
    /\ UnitStep(ret.target)

\* No further move is accepted: the agent is dead, out of moves, or on the goal.
Terminal == SimulationEnded \/ AlreadyWon

\* C20: moves_made starts at 0, grows by exactly 1 on each committed move and
\* not otherwise, and never exceeds max_moves; with decide_next_move called
\* again and again the session reaches, and stays in, a state where every move
\* is rejected.
C20_MoveBudget ==
    /\ moves_made = 0
    /\ [][/\ moves_made' = moves_made
             \/ (moves_made' = moves_made + 1 /\ pos' = call'.target)
          /\ (call'.op = "decide_next_move" /\ ~Terminal)
                => moves_made' = moves_made + 1
          /\ moves_made' <= max_moves]_vars
    /\ <>[]Terminal

\* C20's case: the policy has used the whole budget and the next
\* decide_next_move was refused.
C20_Witness ==
    /\ call.op = "decide_next_move"
    /\ moves_made = max_moves
    /\ alive
    /\ ~has_won
    /\ ret = Ended

\* C20's counting, with manual moves as well: a step either commits a move,
\* counts it once and reports its outcome, or leaves the agent and the grid as
\* they were.
C20_CountsCommittedMoves ==
    [][\/ /\ moves_made' = moves_made + 1
          /\ call'.op \in {"move", "decide_next_move"}
          /\ ret' = Outcome(pos')
       \/ UNCHANGED session_state]_vars

Abs(n) == IF n < 0 THEN -n ELSE n

\* The number of steps between two cells.
Distance(p, q) == Abs(p[1] - q[1]) + Abs(p[2] - q[2])

\* C21: update_percepts(p, S) changes only cell p and, when S has neither
\* Breeze nor Stench, the unvisited cells one step from p; with a Breeze or a
\* Stench it changes p alone. No cell further away and no visited neighbour
\* changes, and what is written does not depend on any other cell.
C21_UpdatePerceptsFrame ==
    [][call'.op = "update_percepts" =>
          LET p == call'.p
              S == call'.percepts
          IN  /\ \A q \in Cells :
                    knowledge_map'[q] # knowledge_map[q]
                       => \/ q = p
                          \/ /\ Distance(p, q) = 1
                             /\ ~knowledge_map[q].visited
                             /\ NoHazardIndicator(S)
              /\ knowledge_map'[p] =
                    [visited |-> TRUE, percepts |-> S, is_safe |-> TRUE,
                     prob_pit |-> 0, prob_wumpus |-> 0]
              /\ \A q \in Cells \ {p} :
                    knowledge_map'[q] # knowledge_map[q]
                       => knowledge_map'[q] =
                             [knowledge_map[q] EXCEPT !.is_safe = TRUE,
                                                      !.prob_pit = 0,
                                                      !.prob_wumpus = 0]]_vars

\* C21's case: update_percepts stored a Breeze for a second cell and left a
\* neighbour unproven, next to a visited neighbour.
C21_Witness ==
    /\ call.op = "update_percepts"
    /\ "Breeze" \in call.percepts
    /\ calls = MaxCalls
    /\ \E q \in NeighborSet(call.p) : ~knowledge_map[q].is_safe
    /\ \E q \in NeighborSet(call.p) : knowledge_map[q].visited

\* Further case of C21: a silent cell made an unvisited neighbour safe next to
\* a visited neighbour that kept its percepts.
C21_SilentNextToVisited ==
    /\ call.op = "update_percepts"
    /\ NoHazardIndicator(call.percepts)
    /\ \E q \in NeighborSet(call.p) :
          knowledge_map[q].visited /\ knowledge_map[q].percepts # {}
    /\ \E q \in NeighborSet(call.p) :
          ~knowledge_map[q].visited /\ knowledge_map[q].is_safe

\* C22: a move onto a hazard cell commits the position and counts the move but
\* leaves the belief grid unchanged; no cell that holds a pit or the wumpus is
\* ever visited or safe in the grid.
C22_DeathLeavesGrid ==
    [][/\ (call'.op = "move" /\ Active
           /\ InBounds(Shift(pos, DirectionDelta(call'.direction)))
           /\ is_deadly(Shift(pos, DirectionDelta(call'.direction))))
             => /\ pos' = Shift(pos, DirectionDelta(call'.direction))
                /\ moves_made' = moves_made + 1
                /\ ~alive'
                /\ knowledge_map' = knowledge_map
       /\ \A q \in Cells :
             is_deadly(q) => ~knowledge_map[q].visited /\ ~knowledge_map[q].is_safe]_vars

\* C22's case: the agent died on its third move or later, on a cell the grid
\* had spread evidence on.
C22_Witness ==
    /\ ~alive
    /\ call.op = "move"
    /\ ret.message = "TRAGEDY!"
    /\ moves_made > 2
    /\ ~knowledge_map[pos].visited
    /\ knowledge_map[pos].prob_pit + knowledge_map[pos].prob_wumpus > 0

\* C23: whenever the agent is alive, the cell it stands on is visited and
\* stores exactly the percepts the world returns for it.
C23_CurrentCellObserved ==
    alive => /\ knowledge_map[pos].visited
             /\ knowledge_map[pos].percepts = get_percepts(pos)

\* C23's case: a committed move has brought the live agent onto a cell with
\* two percepts or more.
C23_Witness ==
    /\ alive
    /\ call.op \in {"move", "decide_next_move"}
    /\ ret.success
    /\ moves_made > 0
    /\ Cardinality(get_percepts(pos)) > 1
    /\ knowledge_map[pos].percepts = get_percepts(pos)

\* C24: in every reachable state no cell is proven safe while one of its
\* probabilities is 1 or more, and no visited cell has a probability of 1 or
\* more: query never meets a cell that is both certain and safe.
C24_CertainNeverSafe ==
    \A q \in Cells :
        (knowledge_map[q].is_safe \/ knowledge_map[q].visited)
            => /\ knowledge_map[q].prob_pit < ONE
               /\ knowledge_map[q].prob_wumpus < ONE

\* C24's case: elimination has made a cell certain, next to a visited cell, and
\* that cell is neither safe nor visited.
C24_Witness ==
    /\ call.op = "update_probabilities"
    /\ \E q \in Cells :
          /\ knowledge_map[q].prob_pit >= ONE
          /\ ~knowledge_map[q].is_safe
          /\ ~knowledge_map[q].visited
          /\ \E p \in NeighborSet(q) :
                knowledge_map[p].visited /\ knowledge_map[p].is_safe

\* C25: knowledge is monotone: no operation (move, decide_next_move, query, and
\* the update_percepts and update_probabilities they run) turns a cell's is_safe
\* or visited from true to false; so elimination writes is_safe = false only
\* where it was false already.
C25_KnowledgeMonotone ==
    [][\A q \in Cells :
          /\ knowledge_map[q].is_safe => knowledge_map'[q].is_safe
          /\ knowledge_map[q].visited => knowledge_map'[q].visited]_vars

\* C25's case: elimination has run at a visited cell that also has a neighbour
\* proven safe but not visited, and that neighbour is still safe.
C25_Witness ==
    /\ call.op \in {"move", "decide_next_move"}
    /\ ret.success
    /\ \E p \in Cells :
          /\ knowledge_map[p].visited
          /\ knowledge_map[p].percepts \cap {"Breeze", "Stench"} # {}
          /\ \E q \in NeighborSet(p) :
                /\ ~knowledge_map[q].is_safe
                /\ Max(knowledge_map[q].prob_pit, knowledge_map[q].prob_wumpus) >= ONE
          /\ \E q \in NeighborSet(p) :
                knowledge_map[q].is_safe /\ ~knowledge_map[q].visited

\* The grid with every probability erased: what is left is the visited flags,
\* the stored percepts and the is_safe flags.
Blank(km) ==
    [q \in Cells |-> [km[q] EXCEPT !.prob_pit = 0, !.prob_wumpus = 0]]

\* C26: update_probabilities is a full recompute: its result in a reachable
\* state is the one it computes from the flags and percepts alone, whatever the
\* probabilities were before; a second call in a row changes nothing; and it
\* changes no visited flag, no stored percept and no is_safe value.
C26_FullRecompute ==
    [][call'.op = "update_probabilities"
          => /\ knowledge_map' = update_probabilities(Blank(knowledge_map))
             /\ update_probabilities(knowledge_map') = knowledge_map'
             /\ Blank(knowledge_map') = Blank(knowledge_map)]_vars

\* C26's case: update_probabilities has returned after two visits, leaving a
\* certain cell as well as a shared suspicion.
C26_Witness ==
    /\ call.op = "update_probabilities"
    /\ calls = MaxCalls
    /\ \E q \in Cells : knowledge_map[q].prob_pit = ONE
    /\ \E q \in Cells : knowledge_map[q].prob_wumpus \in 1 .. ONE - 1

\* The values a probability can take: 0, 1, and 1/k for k = 2, 3, 4.
ProbabilityValues == {0, ONE} \cup {ONE \div k : k \in 2 .. 4}

\* C27: in every reachable state both probabilities of every cell lie in
\* [0, 1] and are 0, 1, or 1/k for some k in {2, 3, 4}.
C27_ProbabilityValues ==
    \A q \in Cells :
        /\ knowledge_map[q].prob_pit \in ProbabilityValues
        /\ knowledge_map[q].prob_wumpus \in ProbabilityValues
        /\ knowledge_map[q].prob_pit \in 0 .. ONE
        /\ knowledge_map[q].prob_wumpus \in 0 .. ONE

\* C27's case: update_probabilities has left one cell with the maximum of two
\* different shares (1/2 from one visited cell, 1/4 from another).
C27_Witness ==
    /\ call.op = "update_probabilities"
    /\ \E q \in Cells :
          /\ knowledge_map[q].prob_pit = ONE \div 2
          /\ \E p1 \in NeighborSet(q), p2 \in NeighborSet(q) :
                /\ knowledge_map[p1].visited /\ "Breeze" \in knowledge_map[p1].percepts
                /\ knowledge_map[p2].visited /\ "Breeze" \in knowledge_map[p2].percepts
                /\ Len(unknown_neighbors(knowledge_map, p1)) = 2
                /\ Len(unknown_neighbors(knowledge_map, p2)) = 4

\* C28: the DEAD and WON outcomes are mutually exclusive: for every world the
\* constructor accepts and every sequence of moves, no reachable state has
\* alive = false while has_won (the position equals the goal) is true.
C28_DeadNeverWon == ~(~alive /\ has_won)

\* The same statement for the worlds whose goal is not on a hazard: the
\* constructor does not require this, the property needs it.
C28_DeadNeverWon_GoalOffHazards ==
    ~is_deadly(paradise_pos) => ~(~alive /\ has_won)

\* A death in a world whose goal is off the hazards, where the exclusion holds.
C28_DiedOffGoal ==
    /\ ~is_deadly(paradise_pos)
    /\ ~alive
    /\ call.op = "move"
    /\ ~has_won

====
